---- MODULE Spec2Model ----
(***************************************************************************)
(* Village / GameState / GameEngine of travian_strategy.game_engine.        *)
(*                                                                         *)
(* Time: a datetime is an integer instant, a timedelta an integer           *)
(* duration.  Python objects that are shared by reference (the Village an  *)
(* engine holds) are modelled as one heap cell, named by a reference.      *)
(***************************************************************************)
EXTENDS Integers, Sequences, FiniteSets, TLC

VARIABLES
    village,                   \* the Village object held by GameEngine.village
    server_speed,              \* GameEngine.server_speed
    current_time,              \* GameState.current_time
    constructions_in_progress, \* GameState.constructions_in_progress
    last_call,                 \* the most recent call: operation, argument, outcome
    retained,                  \* what the caller kept from get_current_state()
    retained_seen,             \* the content retained referred to when it was kept
    reads,                     \* get_current_state() calls since the last other call
    scraper                    \* the locals of ResourcesScraper._process_all_buildings

vars == <<village, server_speed, current_time, constructions_in_progress,
          last_call, retained, retained_seen, reads, scraper>>

----------------------------------------------------------------------------
(* Bounds of the exploration *)

MaxTime == 4          \* instants explored: 0..MaxTime
MaxDelta == 2         \* largest timedelta handed to advance_time_to
MaxSpeed == 2         \* server speeds explored: 1..MaxSpeed
MaxReads == 2         \* get_current_state() calls in a row

\* no scraper is running
NoScraper == [pc |-> "idle"]

----------------------------------------------------------------------------
(* resource_field_model.py *)

ResourceTypes == {"wood", "clay", "iron", "crop"}

ResourceField(field_type, level, position) ==
    [field_type |-> field_type, level |-> level, position |-> position,
     culture_points_per_hour |-> 0]

base_rates == [t \in ResourceTypes |-> 30]

\* a production with the sign of the exponent turned: base * level * 1.5 ** (1 - level)
base_production_shrinking(field) ==
    IF field.level = 0 THEN 0
    ELSE (base_rates[field.field_type] * field.level * 2 ^ (field.level - 1))
            \div 3 ^ (field.level - 1)

\* int(base * level * 1.5 ** (level - 1)): 1.5 ** (level - 1) is 3^(level-1) / 2^(level-1),
\* the product is exact in a double at these levels, and int() drops the fraction
base_production_per_hour(field) ==
    IF field.level = 0 THEN 0
    ELSE (base_rates[field.field_type] * field.level * 3 ^ (field.level - 1))
            \div 2 ^ (field.level - 1)

----------------------------------------------------------------------------
(* building_model.py *)

Digits == {"0", "1", "2", "3", "4", "5", "6", "7", "8", "9"}

\* building ids are strings, kept as sequences of characters
G15 == <<"g", "1", "5">>
BadId == <<"x", "1">>
G10 == <<"g", "1", "0">>
G11 == <<"g", "1", "1">>

\* re.match(r'^g\d+$', v)
validate_building_id(v) ==
    /\ Len(v) >= 2
    /\ v[1] = "g"
    /\ \A i \in 2..Len(v) : v[i] \in Digits

\* the Field constraints of VillageBuilding and its validator: does construction succeed
VillageBuildingValid(building_id, level, position) ==
    /\ validate_building_id(building_id)
    /\ level >= 0 /\ level <= 25
    /\ position >= 19 /\ position <= 40

VillageBuilding(building_id, building_name, level, position) ==
    [building_id |-> building_id, building_name |-> building_name,
     level |-> level, position |-> position, singleton |-> FALSE]

----------------------------------------------------------------------------
(* village_factory.py *)

ResourceOrder == <<"wood", "clay", "iron", "crop">>

RECURSIVE Sum(_)
Sum(s) == IF s = <<>> THEN 0 ELSE Head(s) + Sum(Tail(s))

\* the checks without the one for a count below 1
parse_village_type_any_count(village_type) ==
    IF Len(village_type) # 4 THEN [error |-> "ValueError"]
    ELSE IF Sum(village_type) # 18 THEN [error |-> "ValueError"]
    ELSE [error |-> "none",
          counts |-> [r \in ResourceTypes |->
                        village_type[CHOOSE i \in 1..4 : ResourceOrder[i] = r]]]

\* a village type is kept as the sequence of its parsed integers
parse_village_type(village_type) ==
    IF Len(village_type) # 4 THEN [error |-> "ValueError"]
    ELSE IF Sum(village_type) # 18 THEN [error |-> "ValueError"]
    ELSE IF \E i \in 1..4 : village_type[i] < 1 THEN [error |-> "ValueError"]
    ELSE [error |-> "none",
          counts |-> [r \in ResourceTypes |->
                        village_type[CHOOSE i \in 1..4 : ResourceOrder[i] = r]]]

RECURSIVE AppendFieldsFromZero(_, _, _)
\* the inner loop with the position counter started at 0
AppendFieldsFromZero(fields, resource_type, count) ==
    IF count = 0 THEN fields
    ELSE AppendFieldsFromZero(Append(fields, ResourceField(resource_type, 0, Len(fields))),
                              resource_type, count - 1)

RECURSIVE AppendFields(_, _, _)
\* the inner loop: count fields of one type, at consecutive positions
AppendFields(fields, resource_type, count) ==
    IF count = 0 THEN fields
    ELSE AppendFields(Append(fields, ResourceField(resource_type, 0, Len(fields) + 1)),
                      resource_type, count - 1)

RECURSIVE FieldsFrom(_, _, _)
\* the outer loop, over resource_order from index i
FieldsFrom(field_counts, i, fields) ==
    IF i > Len(ResourceOrder) THEN fields
    ELSE FieldsFrom(field_counts, i + 1,
                    AppendFields(fields, ResourceOrder[i], field_counts[ResourceOrder[i]]))

create_resource_fields(village_type) ==
    FieldsFrom(parse_village_type(village_type).counts, 1, <<>>)

create_default_buildings ==
    <<VillageBuilding(G15, "Main Building", 1, 19)>>

\* Village(...) defaults: village_model.py
DefaultResourcesAboveCap == [r \in ResourceTypes |-> 1000]
DefaultCurrentResources == [r \in ResourceTypes |-> 0]
DefaultResourceCaps == [r \in ResourceTypes |-> 800]

create_village_from_type(village_type) ==
    [village_type |-> village_type,
     capital |-> FALSE,
     resource_fields |-> create_resource_fields(village_type),
     buildings |-> create_default_buildings,
     troops |-> <<>>,
     start_time |-> 0,
     seconds_since_creation |-> 0,
     current_resources |-> DefaultCurrentResources,
     resource_caps |-> DefaultResourceCaps,
     population |-> 0,
     culture_points |-> 0]

----------------------------------------------------------------------------
(* village_model.py *)

Positions(buildings) == {buildings[i].position : i \in 1..Len(buildings)}

\* add_building building the VillageBuilding before it looks at the position
add_building_validating_first(v, building_id, building_name, level, position) ==
    IF ~VillageBuildingValid(building_id, level, position)
    THEN [error |-> "ValidationError", message |-> "VillageBuilding", village |-> v]
    ELSE IF position \in Positions(v.buildings)
    THEN [error |-> "ValueError", message |-> "is already occupied", village |-> v]
    ELSE [error |-> "none", message |-> "",
          village |-> [v EXCEPT !.buildings =
                          Append(@, VillageBuilding(building_id, building_name,
                                                    level, position))]]

\* add_building without the check for an occupied position
add_building_unchecked(v, building_id, building_name, level, position) ==
    IF ~(19 <= position /\ position <= 40)
    THEN [error |-> "ValueError", message |-> "must be between 19-40", village |-> v]
    ELSE IF ~VillageBuildingValid(building_id, level, position)
    THEN [error |-> "ValidationError", message |-> "VillageBuilding", village |-> v]
    ELSE [error |-> "none", message |-> "",
          village |-> [v EXCEPT !.buildings =
                          Append(@, VillageBuilding(building_id, building_name,
                                                    level, position))]]

\* add_building replacing the list by the new building
add_building_replacing(v, building_id, building_name, level, position) ==
    IF position \in Positions(v.buildings)
    THEN [error |-> "ValueError", message |-> "is already occupied", village |-> v]
    ELSE IF ~(19 <= position /\ position <= 40)
    THEN [error |-> "ValueError", message |-> "must be between 19-40", village |-> v]
    ELSE IF ~VillageBuildingValid(building_id, level, position)
    THEN [error |-> "ValidationError", message |-> "VillageBuilding", village |-> v]
    ELSE [error |-> "none", message |-> "",
          village |-> [v EXCEPT !.buildings =
                          <<VillageBuilding(building_id, building_name,
                                            level, position)>>]]

\* add_building putting the new building first
add_building_prepending(v, building_id, building_name, level, position) ==
    IF position \in Positions(v.buildings)
    THEN [error |-> "ValueError", message |-> "is already occupied", village |-> v]
    ELSE IF ~(19 <= position /\ position <= 40)
    THEN [error |-> "ValueError", message |-> "must be between 19-40", village |-> v]
    ELSE IF ~VillageBuildingValid(building_id, level, position)
    THEN [error |-> "ValidationError", message |-> "VillageBuilding", village |-> v]
    ELSE [error |-> "none", message |-> "",
          village |-> [v EXCEPT !.buildings =
                          <<VillageBuilding(building_id, building_name,
                                            level, position)>> \o @]]

\* the outcome of Village.add_building on v: the error raised, and the village after
add_building(v, building_id, building_name, level, position) ==
    IF position \in Positions(v.buildings)
    THEN [error |-> "ValueError", message |-> "is already occupied", village |-> v]
    ELSE IF ~(19 <= position /\ position <= 40)
    THEN [error |-> "ValueError", message |-> "must be between 19-40", village |-> v]
    ELSE IF ~VillageBuildingValid(building_id, level, position)
    THEN [error |-> "ValidationError", message |-> "VillageBuilding", village |-> v]
    ELSE [error |-> "none", message |-> "",
          village |-> [v EXCEPT !.buildings =
                          Append(@, VillageBuilding(building_id, building_name,
                                                    level, position))]]

get_building_by_position(v, position) ==
    IF position \in Positions(v.buildings)
    THEN LET i == CHOOSE j \in 1..Len(v.buildings) :
                     /\ v.buildings[j].position = position
                     /\ \A k \in 1..(j - 1) : v.buildings[k].position # position
         IN  [found |-> TRUE, building |-> v.buildings[i]]
    ELSE [found |-> FALSE]

RECURSIVE FieldActionsCapTen(_, _, _)
\* the loop over resource_fields with the cap of a normal village for every village
FieldActionsCapTen(v, i, actions) ==
    IF i > Len(v.resource_fields) THEN actions
    ELSE LET field == v.resource_fields[i]
         IN  FieldActionsCapTen(v, i + 1,
                IF field.level = 0
                THEN Append(actions,
                        [kind |-> "BuildResourceField", type |-> "build",
                         position |-> field.position, field_type |-> field.field_type,
                         target_level |-> field.level + 1])
                ELSE IF field.level < 10
                THEN Append(actions,
                        [kind |-> "UpgradeResourceField", type |-> "upgrade",
                         position |-> field.position, field_type |-> field.field_type,
                         target_level |-> field.level + 1])
                ELSE actions)

RECURSIVE FieldActions(_, _, _)
\* get_valid_actions, part 1: the loop over resource_fields
FieldActions(v, i, actions) ==
    IF i > Len(v.resource_fields) THEN actions
    ELSE LET field == v.resource_fields[i]
             max_resource_level == IF ~v.capital THEN 10 ELSE 20
         IN  FieldActions(v, i + 1,
                IF field.level = 0
                THEN Append(actions,
                        [kind |-> "BuildResourceField", type |-> "build",
                         position |-> field.position, field_type |-> field.field_type,
                         target_level |-> field.level + 1])
                ELSE IF field.level < max_resource_level
                THEN Append(actions,
                        [kind |-> "UpgradeResourceField", type |-> "upgrade",
                         position |-> field.position, field_type |-> field.field_type,
                         target_level |-> field.level + 1])
                ELSE actions)

RECURSIVE SlotActionsEverySlot(_, _, _)
\* the loop over range(19, 41) without the occupancy test
SlotActionsEverySlot(v, pos, actions) ==
    IF pos > 40 THEN actions
    ELSE SlotActionsEverySlot(v, pos + 1,
            Append(actions,
                    [kind |-> "BuildBuildingAction", type |-> "build",
                     position |-> pos, building_id |-> "Empty", target_level |-> 1]))

RECURSIVE SlotActionsBelow40(_, _, _)
\* the loop over range(19, 40): the last slot is left out
SlotActionsBelow40(v, pos, actions) ==
    IF pos > 39 THEN actions
    ELSE SlotActionsBelow40(v, pos + 1,
            IF pos \notin Positions(v.buildings)
            THEN Append(actions,
                    [kind |-> "BuildBuildingAction", type |-> "build",
                     position |-> pos, building_id |-> "Empty", target_level |-> 1])
            ELSE actions)

RECURSIVE SlotActions(_, _, _)
\* get_valid_actions, part 2: the loop over range(19, 41)
SlotActions(v, pos, actions) ==
    IF pos > 40 THEN actions
    ELSE SlotActions(v, pos + 1,
            IF pos \notin Positions(v.buildings)
            THEN Append(actions,
                    [kind |-> "BuildBuildingAction", type |-> "build",
                     position |-> pos, building_id |-> "Empty", target_level |-> 1])
            ELSE actions)

RECURSIVE BuildingUpgrades(_, _, _)
\* get_valid_actions, part 3: the loop over buildings appends a formatted str
BuildingUpgrades(v, i, actions) ==
    IF i > Len(v.buildings) THEN actions
    ELSE LET building == v.buildings[i]
         IN  BuildingUpgrades(v, i + 1,
                IF building.level < 25
                THEN Append(actions,
                        [kind |-> "str", building_name |-> building.building_name,
                         building_id |-> building.building_id,
                         position |-> building.position,
                         from_level |-> building.level,
                         to_level |-> building.level + 1])
                ELSE actions)

get_valid_actions(v) ==
    BuildingUpgrades(v, 1, SlotActions(v, 19, FieldActions(v, 1, <<>>)))

Range(s) == {s[i] : i \in 1..Len(s)}

----------------------------------------------------------------------------
(* game_state.py *)

BuildingConstruction(building_position, target_level, completion_time, resource_cost) ==
    [building_position |-> building_position, target_level |-> target_level,
     completion_time |-> completion_time, resource_cost |-> resource_cost]

\* what advance_to_next_event does to (current_time, constructions_in_progress): pass
advance_to_next_event(time, pending) ==
    [error |-> "none", current_time |-> time, constructions_in_progress |-> pending]

\* self.current_time += building_time: a datetime plus a datetime is a TypeError,
\* a datetime plus a timedelta is the later (or, for a negative one, earlier) datetime
advance_time_to(time, pending, building_time) ==
    IF building_time.kind = "datetime"
    THEN [error |-> "TypeError", current_time |-> time,
          constructions_in_progress |-> pending]
    ELSE [error |-> "none", current_time |-> time + building_time.value,
          constructions_in_progress |-> pending]

----------------------------------------------------------------------------
(* game_engine.py *)

VillageRef == "Village#1"

\* the object a reference denotes; the engine holds the only Village
Deref(ref) == village

NoneResult == [kind |-> "None"]

\* {"village": self.village}: the dict holds the engine's own Village object
get_current_state == [kind |-> "dict", village |-> VillageRef]

\* the per-level records of the catalog that a committed action would consume
\* (BuildingCatalog: resource_cost and build_time of the level an action targets)
CatalogBuildTime(action) ==
    IF action.kind \in {"BuildResourceField", "UpgradeResourceField"} THEN 2 ELSE 3

CatalogResourceCost(action) ==
    IF action.kind \in {"BuildResourceField", "UpgradeResourceField"}
    THEN [r \in ResourceTypes |-> 0]
    ELSE [r \in ResourceTypes |-> 1]

----------------------------------------------------------------------------
(* The state machine: one engine, one game state, one caller *)

\* two of STANDARD_VILLAGE_TYPES: "start" and "cropper9"
VillageTypes == {<<4, 4, 4, 6>>, <<3, 3, 3, 9>>}

StartTime == 1

NoArg == [kind |-> "none"]

Call(op, arg, error, result) ==
    [op |-> op, arg |-> arg, error |-> error, result |-> result]

\* GameState has no constructor: its caller assigns the attributes.  The
\* constructions it may assign: a field build and a Main Building upgrade.
FieldBuild ==
    BuildingConstruction(1, 1, StartTime + 1, [r \in ResourceTypes |-> 0])
MainUpgrade ==
    BuildingConstruction(19, 2, StartTime + 2, [r \in ResourceTypes |-> 1])

PendingChoices ==
    {<<>>, <<FieldBuild>>, <<FieldBuild, MainUpgrade>>, <<MainUpgrade, FieldBuild>>}

Init ==
    /\ village \in {create_village_from_type(t) : t \in VillageTypes}
    /\ server_speed \in 1..MaxSpeed
    /\ current_time = StartTime
    /\ constructions_in_progress \in PendingChoices
    /\ last_call = Call("init", NoArg, "none", NoneResult)
    /\ retained = NoneResult
    /\ retained_seen = NoneResult
    /\ reads = 0
    /\ scraper = NoScraper

\* the actions a caller holds: those valid_actions() gave for the fresh village,
\* at a field and at two building slots (they go stale as buildings are added)
CommitPositions == {1, 20, 21}

CommitActions ==
    {a \in Range(get_valid_actions(create_village_from_type(village.village_type))) :
        a.kind # "str" /\ a.position \in CommitPositions}

\* GameEngine defines no commit: the call raises AttributeError
Commit ==
    \E a \in CommitActions :
        /\ last_call' = Call("commit", a, "AttributeError", NoneResult)
        /\ UNCHANGED <<scraper, village, server_speed, current_time,
                       constructions_in_progress, retained, retained_seen>>
        /\ reads' = 0

AdvanceToNextEvent ==
    LET r == advance_to_next_event(current_time, constructions_in_progress)
    IN  /\ current_time' = r.current_time
        /\ constructions_in_progress' = r.constructions_in_progress
        /\ last_call' = Call("advance_to_next_event", NoArg, r.error, NoneResult)
        /\ reads' = 0
        /\ UNCHANGED <<scraper, village, server_speed, retained, retained_seen>>

TimeArgs ==
    {[kind |-> "datetime", value |-> t] : t \in 0..MaxTime}
        \cup {[kind |-> "timedelta", value |-> d] : d \in (-1)..MaxDelta}

AdvanceTimeTo ==
    \E building_time \in TimeArgs :
        LET r == advance_time_to(current_time, constructions_in_progress, building_time)
        IN  /\ r.current_time \in 0..MaxTime
            /\ current_time' = r.current_time
            /\ constructions_in_progress' = r.constructions_in_progress
            /\ last_call' = Call("advance_time_to", building_time, r.error, NoneResult)
            /\ reads' = 0
        /\ UNCHANGED <<scraper, village, server_speed, retained, retained_seen>>

\* the building ids a caller hands to add_building, with their names
BuildingIds == {G15, BadId}

BuildingNames == [id \in BuildingIds |->
                    IF id = G15 THEN "Main Building" ELSE "Warehouse"]

AddBuilding ==
    \E building_id \in BuildingIds, level \in {1, 26}, position \in {18, 19, 20, 21, 41} :
        LET r == add_building(village, building_id, BuildingNames[building_id],
                              level, position)
        IN  /\ village' = r.village
            /\ last_call' = [op |-> "add_building",
                             arg |-> [building_id |-> building_id, level |-> level,
                                      position |-> position],
                             error |-> r.error, message |-> r.message,
                             result |-> NoneResult]
            /\ reads' = 0
            /\ UNCHANGED <<scraper, server_speed, current_time, constructions_in_progress,
                           retained, retained_seen>>

\* a getter that refreshes the village it returns
GetCurrentStateRefreshing ==
    /\ reads < MaxReads
    /\ reads' = reads + 1
    /\ village' = [village EXCEPT !.seconds_since_creation = reads + 1]
    /\ last_call' = Call("get_current_state", NoArg, "none", get_current_state)
    /\ retained' = IF reads = 0 THEN get_current_state ELSE retained
    /\ retained_seen' = IF reads = 0 THEN village' ELSE retained_seen
    /\ UNCHANGED <<scraper, server_speed, current_time, constructions_in_progress>>

\* get_current_state() reads self.village and nothing else.  The caller keeps
\* the dict of the first call of a row of calls, and notes what it showed.
GetCurrentState ==
    /\ reads < MaxReads
    /\ reads' = reads + 1
    /\ last_call' = Call("get_current_state", NoArg, "none", get_current_state)
    /\ retained' = IF reads = 0 THEN get_current_state ELSE retained
    /\ retained_seen' = IF reads = 0 THEN village ELSE retained_seen
    /\ UNCHANGED <<scraper, village, server_speed, current_time, constructions_in_progress>>

Next ==
    \/ Commit
    \/ AdvanceToNextEvent
    \/ AdvanceTimeTo
    \/ AddBuilding
    \/ GetCurrentState

Spec == Init /\ [][Next]_vars

----------------------------------------------------------------------------
(* Vocabulary of the properties *)

\* the level at a position: of the field (1..18), of the building, -1 for a vacant slot
LevelAt(v, position) ==
    IF position \in 1..18
    THEN LET i == CHOOSE j \in 1..Len(v.resource_fields) :
                     v.resource_fields[j].position = position
         IN  v.resource_fields[i].level
    ELSE LET b == get_building_by_position(v, position)
         IN  IF b.found THEN b.building.level ELSE -1

\* the action is one valid_actions() gives for the village as it is now
Legal(v, action) == action \in Range(get_valid_actions(v))

Affordable(v, cost) == \A r \in ResourceTypes : v.current_resources[r] >= cost[r]

\* completion_time of an action committed now
CompletionTime(action) == current_time + (CatalogBuildTime(action) \div server_speed)

Earliest(pending) ==
    CHOOSE i \in 1..Len(pending) :
        \A j \in 1..Len(pending) :
            \/ pending[i].completion_time < pending[j].completion_time
            \/ (pending[i].completion_time = pending[j].completion_time /\ i <= j)

Without(s, i) == [k \in 1..(Len(s) - 1) |-> IF k < i THEN s[k] ELSE s[k + 1]]

----------------------------------------------------------------------------
(* C1 *)

----------------------------------------------------------------------------
(* C2 .. C8: the clock and commit *)

\* the argument of an advance_time_to call asks for instant t
AsksFor(building_time, t) ==
    \/ building_time.kind = "datetime" /\ building_time.value = t
    \/ building_time.kind = "timedelta" /\ current_time + building_time.value = t

\* C2: commit(action) followed by advance_time_to(action.completion_time) leaves
\* the field or building at the action's position at exactly target_level, for
\* every legal action.
C2_CommitThenAdvanceReachesTarget ==
    [][(/\ last_call.op = "commit"
        /\ Legal(village, last_call.arg)
        /\ last_call'.op = "advance_time_to"
        /\ AsksFor(last_call'.arg, CompletionTime(last_call.arg)))
       => LevelAt(village', last_call.arg.position) = last_call.arg.target_level]_vars

\* C3: advance_to_next_event with nothing pending fails with
\* NoConstructionsPending and leaves current_time and the rest of the state unchanged.
C3_NextEventOnEmptyFails ==
    [][(/\ last_call'.op = "advance_to_next_event"
        /\ constructions_in_progress = <<>>)
       => /\ last_call'.error = "NoConstructionsPending"
          /\ UNCHANGED <<scraper, village, server_speed, current_time,
                         constructions_in_progress>>]_vars

\* C4: advance_to_next_event with constructions pending removes exactly the one
\* with the earliest completion_time, sets current_time to that completion_time
\* and the targeted level to its target_level; the others stay pending.
C4_NextEventCompletesEarliest ==
    [][(/\ last_call'.op = "advance_to_next_event"
        /\ constructions_in_progress # <<>>)
       => LET i == Earliest(constructions_in_progress)
              c == constructions_in_progress[i]
          IN  /\ constructions_in_progress' = Without(constructions_in_progress, i)
              /\ current_time' = c.completion_time
              /\ LevelAt(village', c.building_position) = c.target_level]_vars

\* C5: advance_time_to(timestamp) fails with InvalidTimestamp whenever timestamp
\* precedes current_time; current_time never decreases, whatever the operation;
\* on success current_time equals the requested timestamp.
C5_TimeIsMonotonic ==
    [][/\ current_time' >= current_time
       /\ (last_call'.op = "advance_time_to" /\ last_call'.arg.kind = "datetime")
            => /\ last_call'.arg.value < current_time
                    => last_call'.error = "InvalidTimestamp"
               /\ last_call'.error = "none"
                    => current_time' = last_call'.arg.value]_vars

\* C6: after a successful advance_time_to(t) exactly the pending constructions
\* with completion_time <= t have been removed and applied, and every
\* construction with completion_time > t is still pending.
C6_AdvanceCompletesDue ==
    [][(/\ last_call'.op = "advance_time_to"
        /\ last_call'.error = "none")
       => LET t == current_time'
              Due(c) == c.completion_time <= t
              Later(c) == c.completion_time > t
          IN  /\ constructions_in_progress' = SelectSeq(constructions_in_progress, Later)
              /\ \A c \in Range(constructions_in_progress) :
                     Due(c) => LevelAt(village', c.building_position) >= c.target_level]_vars

\* C7: commit(action) fails with StaleAction when the action is no longer legal,
\* with InsufficientResources when current_resources do not cover its
\* resource_cost, and succeeds only when neither holds.
C7_CommitRejections ==
    [][last_call'.op = "commit"
       => LET stale == ~Legal(village, last_call'.arg)
              short == ~Affordable(village, CatalogResourceCost(last_call'.arg))
          IN  /\ (stale /\ ~short) => last_call'.error = "StaleAction"
              /\ (short /\ ~stale) => last_call'.error = "InsufficientResources"
              /\ (stale /\ short)
                    => last_call'.error \in {"StaleAction", "InsufficientResources"}
              /\ last_call'.error = "none" => (~stale /\ ~short)]_vars

\* C8: a successful commit(action), one of a legal action whose cost is covered,
\* deducts resource_cost from current_resources and adds exactly one
\* BuildingConstruction with completion_time = current_time + build_time /
\* server_speed; the completion_time of a pending construction never changes.
C8_CommitReservesAndSchedules ==
    [][/\ (/\ last_call'.op = "commit"
            /\ Legal(village, last_call'.arg)
            /\ Affordable(village, CatalogResourceCost(last_call'.arg)))
           => LET a == last_call'.arg
                  cost == CatalogResourceCost(a)
                  made == BuildingConstruction(a.position, a.target_level,
                                               CompletionTime(a), cost)
              IN  /\ village'.current_resources =
                        [r \in ResourceTypes |-> village.current_resources[r] - cost[r]]
                  /\ Len(constructions_in_progress') = Len(constructions_in_progress) + 1
                  /\ \E i \in 1..Len(constructions_in_progress') :
                        /\ constructions_in_progress'[i] = made
                        /\ Without(constructions_in_progress', i) = constructions_in_progress
       /\ last_call'.op # "commit"
           => Range(constructions_in_progress') \subseteq Range(constructions_in_progress)]_vars

----------------------------------------------------------------------------
(* C9, C10: snapshots *)

\* C9: a snapshot the caller retained before a transition is not altered by
\* the transition: it still shows what it showed when it was taken.
C9_RetainedSnapshotUnaltered ==
    retained.kind = "dict" => Deref(retained.village) = retained_seen

\* C10: current_state() called twice with no commit or advance in between
\* yields identical snapshots: the same dict, showing the same village.
C10_CurrentStateIdempotent ==
    reads >= 1 =>
        /\ last_call.result = retained
        /\ Deref(last_call.result.village) = retained_seen

\* a second call in a row has returned
C10_Witness ==
    /\ reads = 2
    /\ last_call.op = "get_current_state"
    /\ last_call.result = retained
    /\ Deref(last_call.result.village) = retained_seen

----------------------------------------------------------------------------
(* Village type strings: village_factory.py, village_model.py *)

\* a string is a sequence of characters
DigitChars == <<"0", "1", "2", "3", "4", "5", "6", "7", "8", "9">>

RECURSIVE Split(_, _)
\* str.split('-'): cur is the token being read
Split(str, cur) ==
    IF str = <<>> THEN <<cur>>
    ELSE IF Head(str) = "-" THEN <<cur>> \o Split(Tail(str), <<>>)
    ELSE Split(Tail(str), Append(cur, Head(str)))

AllDigits(token) == token # <<>> /\ \A i \in 1..Len(token) : token[i] \in Digits

\* int(x) accepts an optional sign followed by digits
IntAccepts(token) ==
    IF token # <<>> /\ Head(token) \in {"+", "-"}
    THEN AllDigits(Tail(token))
    ELSE AllDigits(token)

RECURSIVE DigitsValue(_, _)
DigitsValue(token, acc) ==
    IF token = <<>> THEN acc
    ELSE DigitsValue(Tail(token),
                     acc * 10 + ((CHOOSE n \in 1..10 : DigitChars[n] = Head(token)) - 1))

IntOf(token) ==
    IF Head(token) = "+" THEN DigitsValue(Tail(token), 0)
    ELSE IF Head(token) = "-" THEN 0 - DigitsValue(Tail(token), 0)
    ELSE DigitsValue(token, 0)

\* [int(x) for x in village_type.split('-')]
IntParts(str) ==
    LET tokens == Split(str, <<>>)
    IN  IF \E i \in 1..Len(tokens) : ~IntAccepts(tokens[i])
        THEN [error |-> "ValueError"]
        ELSE [error |-> "none", parts |-> [i \in 1..Len(tokens) |-> IntOf(tokens[i])]]

\* Village.validate_village_type: the pattern ^\d+-\d+-\d+-\d+$, then the same
\* three checks on the parts as parse_village_type makes
validate_village_type(str) ==
    LET tokens == Split(str, <<>>)
    IN  /\ Len(tokens) = 4
        /\ \A i \in 1..4 : AllDigits(tokens[i])
        /\ parse_village_type(IntParts(str).parts).error = "none"

\* Village.validate_resource_fields
validate_resource_fields(fields) ==
    /\ Len(fields) = 18
    /\ {fields[i].position : i \in 1..Len(fields)} = 1..18

NoVillage == [kind |-> "None"]

\* create_village_from_type on a type string: the error raised, and the village made
create_village_from_string(str) ==
    LET p == IntParts(str)
    IN  IF p.error # "none"
        THEN [error |-> "ValueError", message |-> "Invalid village type format",
              village |-> NoVillage]
        ELSE IF parse_village_type(p.parts).error # "none"
        THEN [error |-> "ValueError", message |-> "Invalid village type format",
              village |-> NoVillage]
        ELSE IF ~validate_village_type(str)
                \/ ~validate_resource_fields(create_resource_fields(p.parts))
        THEN [error |-> "ValidationError", message |-> "Village",
              village |-> NoVillage]
        ELSE [error |-> "none", message |-> "",
              village |-> [create_village_from_type(p.parts)
                              EXCEPT !.village_type = str]]

RECURSIVE CountFields(_, _, _)
\* get_village_type_breakdown: the loop over resource_fields
CountFields(fields, i, breakdown) ==
    IF i > Len(fields) THEN breakdown
    ELSE CountFields(fields, i + 1,
                     [breakdown EXCEPT ![fields[i].field_type] = @ + 1])

get_village_type_breakdown(v) ==
    CountFields(v.resource_fields, 1, [r \in ResourceTypes |-> 0])

----------------------------------------------------------------------------
(* The type strings handed to create *)

MaxPart == 5          \* the first three counts of a type string range over 0..MaxPart

FormatInt(n) ==
    IF n < 0 THEN <<"-">> \o (IF 0 - n < 10 THEN <<DigitChars[(0 - n) + 1]>>
                              ELSE <<DigitChars[((0 - n) \div 10) + 1],
                                     DigitChars[((0 - n) % 10) + 1]>>)
    ELSE IF n < 10 THEN <<DigitChars[n + 1]>>
    ELSE <<DigitChars[(n \div 10) + 1], DigitChars[(n % 10) + 1]>>

RECURSIVE FormatType(_)
\* "n1-n2-...": the decimal counts joined by '-'
FormatType(parts) ==
    IF Len(parts) = 1 THEN FormatInt(parts[1])
    ELSE FormatInt(Head(parts)) \o <<"-">> \o FormatType(Tail(parts))

\* three, four and five counts; the four sum to 18 or to 17
PartTuples ==
    {<<a, b, 18 - (a + b)>> : a \in 0..MaxPart, b \in 0..MaxPart}
    \cup {<<t[1], t[2], t[3], t[4] - (t[1] + t[2] + t[3])>> :
            t \in (0..MaxPart) \X (0..MaxPart) \X (0..MaxPart) \X {17, 18}}
    \cup {<<t[1], t[2], t[3], 1, 17 - (t[1] + t[2] + t[3])>> :
            t \in (1..MaxPart) \X (1..MaxPart) \X (1..MaxPart)}

\* strings that are not counts joined by '-'
Unparsable ==
    {<<>>,
     <<"x">>,
     <<"4", "-", "4", "-", "4", "-", "x">>,
     <<"4", "-", "4", "-", "4", "-", "6", "-">>,
     <<"4", "-", "-", "4", "-", "4", "-", "6">>,
     <<"+", "4", "-", "4", "-", "4", "-", "6">>}

TypeStrings == {FormatType(p) : p \in PartTuples} \cup Unparsable

ValidParts(p) == Len(p) = 4 /\ Sum(p) = 18 /\ \A i \in 1..4 : p[i] >= 1

----------------------------------------------------------------------------
(* The factory: villages created from type strings, and read *)

ListResult(items) == [kind |-> "list", items |-> items]

DictResult(items) == [kind |-> "dict", items |-> items]

InitCreate ==
    /\ village = NoVillage
    /\ server_speed = 1
    /\ current_time = StartTime
    /\ constructions_in_progress = <<>>
    /\ last_call = Call("init", NoArg, "none", NoneResult)
    /\ retained = NoneResult
    /\ retained_seen = NoneResult
    /\ reads = 0
    /\ scraper = NoScraper

\* village = create_village_from_type(str), the first step of a run:
\* on an error no village is bound
Create ==
    \E str \in TypeStrings :
        LET r == create_village_from_string(str)
        IN  /\ last_call.op = "init"
            /\ village' = r.village
            /\ last_call' = Call("create", str, r.error, r.village)
            /\ UNCHANGED <<scraper, server_speed, current_time, constructions_in_progress,
                           retained, retained_seen, reads>>

\* a get_valid_actions that builds field 1 when it lists it as to be built
ValidActionsApplyingFirst ==
    /\ village # NoVillage
    /\ last_call' = Call("get_valid_actions", NoArg, "none",
                         ListResult(get_valid_actions(village)))
    /\ village' = [village EXCEPT !.resource_fields[1].level = IF @ = 0 THEN 1 ELSE @]
    /\ UNCHANGED <<scraper, server_speed, current_time, constructions_in_progress,
                   retained, retained_seen, reads>>

ValidActions ==
    /\ village # NoVillage
    /\ last_call' = Call("get_valid_actions", NoArg, "none",
                         ListResult(get_valid_actions(village)))
    /\ UNCHANGED <<scraper, village, server_speed, current_time, constructions_in_progress,
                   retained, retained_seen, reads>>

\* GameEngine.get_valid_actions: return self.village.get_valid_actions()
EngineValidActions ==
    /\ village # NoVillage
    /\ last_call' = Call("GameEngine.get_valid_actions", NoArg, "none",
                         ListResult(get_valid_actions(Deref(VillageRef))))
    /\ UNCHANGED <<scraper, village, server_speed, current_time, constructions_in_progress,
                   retained, retained_seen, reads>>

Breakdown ==
    /\ village # NoVillage
    /\ last_call' = Call("get_village_type_breakdown", NoArg, "none",
                         DictResult(get_village_type_breakdown(village)))
    /\ UNCHANGED <<scraper, village, server_speed, current_time, constructions_in_progress,
                   retained, retained_seen, reads>>

NextCreate ==
    \/ Create
    \/ ValidActions
    \/ Breakdown

SpecCreate == InitCreate /\ [][NextCreate]_vars

----------------------------------------------------------------------------
(* C11, C12, C17: creation *)

Counts(p) == [r \in ResourceTypes |-> p[CHOOSE i \in 1..4 : ResourceOrder[i] = r]]

OrderIndex(r) == CHOOSE i \in 1..4 : ResourceOrder[i] = r

\* the fields are 18, at level 0, at positions 1..18 in list order, grouped in
\* wood, clay, iron, crop order, with p[k] fields of the k-th type
LaidOut(fields, p) ==
    /\ Len(fields) = 18
    /\ \A i \in 1..Len(fields) : fields[i].position = i /\ fields[i].level = 0
    /\ {fields[i].position : i \in 1..Len(fields)} = 1..18
    /\ \A i, j \in 1..Len(fields) :
          i < j => OrderIndex(fields[i].field_type) <= OrderIndex(fields[j].field_type)
    /\ \A r \in ResourceTypes :
          Cardinality({i \in 1..Len(fields) : fields[i].field_type = r}) = Counts(p)[r]

\* C11: for every type string of four positive integers summing to 18, create
\* yields exactly 18 fields at level 0 at positions 1..18, assigned in wood,
\* clay, iron, crop order with the parsed counts, and
\* get_village_type_breakdown equals the parsed counts.
C11_CreateLaysOutFields ==
    \A p \in PartTuples :
        ValidParts(p) =>
            /\ (last_call.op = "create" /\ last_call.arg = FormatType(p))
                  => /\ last_call.error = "none"
                     /\ village = last_call.result
                     /\ LaidOut(village.resource_fields, p)
                     /\ get_village_type_breakdown(village) = Counts(p)
            /\ (/\ last_call.op = "get_village_type_breakdown"
                /\ village.village_type = FormatType(p))
                  => last_call.result.items = Counts(p)

\* create("4-4-4-6") has been read: wood 4, clay 4, iron 4, crop 6
C11_Witness ==
    /\ last_call.op = "get_village_type_breakdown"
    /\ village.village_type = FormatType(<<4, 4, 4, 6>>)
    /\ LaidOut(village.resource_fields, <<4, 4, 4, 6>>)
    /\ last_call.result.items = Counts(<<4, 4, 4, 6>>)

\* C12: create fails with the invalid-village-type error (ValueError), and
\* produces no village, for every type string with other than four parts, a
\* sum other than 18, or a count below 1.
C12_CreateRejectsBadTypes ==
    \A p \in PartTuples :
        (last_call.op = "create" /\ last_call.arg = FormatType(p) /\ ~ValidParts(p))
            => /\ last_call.error = "ValueError"
               /\ last_call.result = NoVillage
               /\ village = NoVillage

\* rejections for each reason: three parts, a sum of 17, a count of 0
C12_Witness ==
    /\ last_call.op = "create"
    /\ last_call.arg \in {FormatType(<<4, 4, 10>>), FormatType(<<4, 4, 4, 5>>),
                           FormatType(<<0, 5, 5, 8>>)}
    /\ last_call.error = "ValueError"
    /\ village = NoVillage

KindCount(items, kind) == Cardinality({i \in 1..Len(items) : items[i].kind = kind})

\* the element tells of the upgrade of the Main Building (g15) at 19 from level 1
IsMainBuildingUpgrade(item) ==
    /\ item.kind \in {"str", "UpgradeBuildingAction"}
    /\ item.building_id = G15
    /\ item.position = 19
    /\ item.to_level = 2

----------------------------------------------------------------------------
(* village_factory.py: create_developed_village *)

RECURSIVE SetLevels(_, _, _)
\* for field in village.resource_fields: if field.position in field_levels:
\*     field.level = field_levels[field.position]     (an unvalidated assignment)
SetLevels(fields, field_levels, i) ==
    IF i > Len(fields) THEN fields
    ELSE SetLevels(IF fields[i].position \in DOMAIN field_levels
                   THEN [fields EXCEPT ![i].level = field_levels[fields[i].position]]
                   ELSE fields,
                   field_levels, i + 1)

RECURSIVE AddBuildings(_, _, _)
\* the loop over additional_buildings: the first add_building that raises ends it
AddBuildings(v, additional_buildings, i) ==
    IF i > Len(additional_buildings) THEN [error |-> "none", message |-> "", village |-> v]
    ELSE LET b == additional_buildings[i]
             r == add_building(v, b.building_id, b.building_name, b.level, b.position)
         IN  IF r.error # "none"
             THEN [error |-> r.error, message |-> r.message, village |-> NoVillage]
             ELSE AddBuildings(r.village, additional_buildings, i + 1)

create_developed_village(village_type, field_levels, additional_buildings) ==
    LET c == create_village_from_string(village_type)
    IN  IF c.error # "none" THEN c
        ELSE AddBuildings(
                [c.village EXCEPT !.resource_fields = SetLevels(@, field_levels, 1)],
                additional_buildings, 1)

----------------------------------------------------------------------------
(* Developed villages: built, extended with add_building, and read *)

\* levels around the two caps, for field 1 alone or fields 1 and 18
LevelInputs == {0, 1, 9, 10, 19, 20}

EmptyMap == [x \in {} |-> 0]

FieldLevelInputs ==
    {EmptyMap}
    \cup {[x \in {1} |-> l] : l \in LevelInputs}
    \cup {[x \in {1, 18} |-> l] : l \in LevelInputs}

\* the buildings of the example in create_developed_village's docstring, the Granary
\* at the highest level a building has
Warehouse == [building_id |-> G10, building_name |-> "Warehouse",
              level |-> 5, position |-> 20]
Granary == [building_id |-> G11, building_name |-> "Granary",
            level |-> 25, position |-> 21]

AdditionalBuildingInputs ==
    {<<>>, <<Warehouse>>, <<Warehouse, Granary>>, <<Granary, Warehouse>>,
     <<Warehouse, Warehouse>>}

DevelopedVillages ==
    {r.village : r \in {x \in {create_developed_village(FormatType(<<4, 4, 4, 6>>), fl, ab) :
                                  fl \in FieldLevelInputs, ab \in AdditionalBuildingInputs} :
                            x.error = "none"}}

\* village.capital is a plain field: the caller sets it
InitVillage ==
    /\ village \in {[v EXCEPT !.capital = c] : v \in DevelopedVillages, c \in BOOLEAN}
    /\ server_speed = 1
    /\ current_time = StartTime
    /\ constructions_in_progress = <<>>
    /\ last_call = Call("init", NoArg, "none", NoneResult)
    /\ retained = NoneResult
    /\ retained_seen = NoneResult
    /\ reads = 0
    /\ scraper = NoScraper

NextVillage ==
    \/ AddBuilding
    \/ ValidActions
    \/ EngineValidActions

SpecVillage == InitVillage /\ [][NextVillage]_vars

----------------------------------------------------------------------------
(* Claims about add_building *)

IsAddBuilding(call) == call.op = "add_building"

\* the list after is the list before with one building for the asked position at its end
AppendedOne(before, after, position) ==
    /\ Len(after) = Len(before) + 1
    /\ SubSeq(after, 1, Len(before)) = before
    /\ after[Len(after)].position = position

\* C13: add_building at a position that already holds a building fails with the
\* ValueError "is already occupied" (PositionOccupied) and leaves the building list
\* exactly as it was
C13_OccupiedPositionRejected ==
    [][(IsAddBuilding(last_call')
        /\ last_call'.arg.position \in Positions(village.buildings))
       => /\ last_call'.error = "ValueError"
          /\ last_call'.message = "is already occupied"
          /\ village'.buildings = village.buildings]_vars

\* an add_building at 20, where the Warehouse already stands, has just been refused
C13_Witness ==
    /\ IsAddBuilding(last_call)
    /\ last_call.arg.position = 20
    /\ last_call.message = "is already occupied"
    /\ \E i \in 1..Len(village.buildings) :
          village.buildings[i].position = 20 /\ village.buildings[i].building_id = G10

\* C14 as stated: a position outside [19,40] fails with the ValueError "must be between
\* 19-40" (PositionOutOfRange) and leaves the list unchanged; a vacant position inside
\* [19,40] appends exactly one building at the end of the list
C14_RangeCheckedThenAppended ==
    [][IsAddBuilding(last_call')
       => LET position == last_call'.arg.position
          IN  /\ position \notin 19..40
                 => /\ last_call'.error = "ValueError"
                    /\ last_call'.message = "must be between 19-40"
                    /\ village'.buildings = village.buildings
              /\ (position \in 19..40 /\ position \notin Positions(village.buildings))
                 => AppendedOne(village.buildings, village'.buildings, position)]_vars

\* C14 amended: as above, but a vacant position inside [19,40] appends exactly one
\* building at the end only when the building_id matches g<digits> and the level is in
\* [0,25]; otherwise the call fails in validation and leaves the list unchanged
C14_RangeCheckedThenValidatedThenAppended ==
    [][IsAddBuilding(last_call')
       => LET position == last_call'.arg.position
              valid == /\ validate_building_id(last_call'.arg.building_id)
                       /\ last_call'.arg.level \in 0..25
          IN  /\ position \notin 19..40
                 => /\ last_call'.error = "ValueError"
                    /\ last_call'.message = "must be between 19-40"
                    /\ village'.buildings = village.buildings
              /\ (position \in 19..40 /\ position \notin Positions(village.buildings))
                 => IF valid
                    THEN /\ last_call'.error = "none"
                         /\ AppendedOne(village.buildings, village'.buildings, position)
                    ELSE /\ last_call'.error = "ValidationError"
                         /\ village'.buildings = village.buildings]_vars

\* a Main Building has just been appended at 21 behind the Warehouse at 20
C14_Witness ==
    /\ IsAddBuilding(last_call)
    /\ last_call.error = "none"
    /\ last_call.arg.position = 21
    /\ Len(village.buildings) = 3
    /\ village.buildings[2].position = 20
    /\ village.buildings[3].position = 21

\* C15: in every village made by create_developed_village and any sequence of
\* add_building calls, building positions are pairwise distinct and lie in 19..40
C15_PositionsDistinctInRange ==
    /\ Cardinality(Positions(village.buildings)) = Len(village.buildings)
    /\ Positions(village.buildings) \subseteq 19..40

\* a developed village with two additional buildings, after add_building calls of which
\* the last was refused for its position
C15_Witness ==
    /\ Len(village.buildings) = 3
    /\ IsAddBuilding(last_call)
    /\ last_call.error = "ValueError"

\* C16: a singleton building (the Main Building, g15) appears at most once in a village
C16_SingletonAtMostOnce ==
    Cardinality({i \in 1..Len(village.buildings) :
                    village.buildings[i].building_id = G15}) <= 1

----------------------------------------------------------------------------
(* Claims about get_valid_actions on developed villages *)

IsValidActions(call) == call.op = "get_valid_actions"

FieldKinds == {"BuildResourceField", "UpgradeResourceField"}

\* the actions of a result that address the resource field at a position
ActionsForField(items, position) ==
    {i \in 1..Len(items) : items[i].kind \in FieldKinds /\ items[i].position = position}

\* C18: for each resource field, valid_actions emits exactly one action when the level
\* is below the cap (BuildResourceField to 1 at level 0, else UpgradeResourceField to
\* level+1) and none when the level is at the cap: 10, or 20 for a capital
C18_OneFieldActionBelowCap ==
    IsValidActions(last_call)
    => LET items == last_call.result.items
           cap == IF village.capital THEN 20 ELSE 10
       IN  \A k \in 1..Len(village.resource_fields) :
              LET field == village.resource_fields[k]
                  mine == ActionsForField(items, field.position)
              IN  /\ field.level < cap
                     => /\ Cardinality(mine) = 1
                        /\ \A i \in mine :
                              /\ items[i].field_type = field.field_type
                              /\ items[i].target_level = field.level + 1
                              /\ items[i].kind = IF field.level = 0
                                                 THEN "BuildResourceField"
                                                 ELSE "UpgradeResourceField"
                  /\ field.level = cap => mine = {}

\* a capital whose field 1 stands at 10 is offered its upgrade to 11
C18_Witness ==
    /\ IsValidActions(last_call)
    /\ village.capital
    /\ village.resource_fields[1].level = 10
    /\ \E i \in ActionsForField(last_call.result.items, 1) :
          /\ last_call.result.items[i].kind = "UpgradeResourceField"
          /\ last_call.result.items[i].target_level = 11

ActionKinds == FieldKinds \cup {"BuildBuildingAction", "UpgradeBuildingAction"}

\* C19: every element valid_actions returns is one of the four Action variants, and
\* each building below level 25 has an UpgradeBuildingAction with its position, its
\* building_id and target_level = level+1, a building at level 25 none
C19_UpgradesAreActions ==
    IsValidActions(last_call)
    => LET items == last_call.result.items
       IN  /\ \A i \in 1..Len(items) : items[i].kind \in ActionKinds
           /\ \A k \in 1..Len(village.buildings) :
                 LET building == village.buildings[k]
                     mine == {i \in 1..Len(items) :
                                 /\ items[i].kind = "UpgradeBuildingAction"
                                 /\ items[i].position = building.position}
                 IN  IF building.level < 25
                     THEN \E i \in mine :
                             /\ items[i].building_id = building.building_id
                             /\ items[i].target_level = building.level + 1
                     ELSE mine = {}

\* C20: valid_actions emits a placeholder BuildBuildingAction for exactly the positions
\* in 19..40 that hold no building, one for each
C20_PlaceholdersForVacantSlots ==
    IsValidActions(last_call)
    => LET items == last_call.result.items
           slots == {i \in 1..Len(items) : items[i].kind = "BuildBuildingAction"}
           vacant == (19..40) \ Positions(village.buildings)
       IN  /\ {items[i].position : i \in slots} = vacant
           /\ Cardinality(slots) = Cardinality(vacant)
           /\ \A i \in slots : items[i].building_id = "Empty" /\ items[i].target_level = 1

\* after a Main Building was added at 21 to a village with a Warehouse at 20, the
\* placeholders cover 22..40 only
C20_Witness ==
    /\ IsValidActions(last_call)
    /\ Len(village.buildings) = 3
    /\ village.buildings[3].building_id = G15
    /\ village.buildings[3].position = 21
    /\ KindCount(last_call.result.items, "BuildBuildingAction") = 19

----------------------------------------------------------------------------
(* Claims about what reading a village leaves alone *)

\* C21: a call of get_valid_actions, on the Village or through the GameEngine, leaves
\* every field of the village as it was
C21_ValidActionsLeavesVillage ==
    [][last_call'.op \in {"get_valid_actions", "GameEngine.get_valid_actions"}
       => village' = village]_vars

\* the engine has just listed the actions of a village whose field 1 stands at 9 and
\* whose Warehouse stands at 20
C21_Witness ==
    /\ last_call.op = "GameEngine.get_valid_actions"
    /\ Len(last_call.result.items) > 0
    /\ village.resource_fields[1].level = 9
    /\ Len(village.buildings) >= 2

RECURSIVE InsertByPosition(_, _)
\* a building put into a list ordered by position, at its place
InsertByPosition(sorted, b) ==
    IF sorted = <<>> THEN <<b>>
    ELSE IF b.position < Head(sorted).position THEN <<b>> \o sorted
    ELSE <<Head(sorted)>> \o InsertByPosition(Tail(sorted), b)

RECURSIVE ByPosition(_)
\* the same buildings, ordered by position
ByPosition(buildings) ==
    IF buildings = <<>> THEN <<>>
    ELSE InsertByPosition(ByPosition(Tail(buildings)), Head(buildings))

\* C22: the sequence valid_actions returns is the one of the village that holds the same
\* buildings ordered by position: fields by position, then buildings by position,
\* whatever the order the buildings were added in
C22_OrderedByPosition ==
    IsValidActions(last_call)
    => last_call.result.items
          = get_valid_actions([village EXCEPT !.buildings = ByPosition(@)])

----------------------------------------------------------------------------
(* Resource fields read for their production *)

\* the highest field level read
MaxProductionLevel == 12

IntResult(value) == [kind |-> "int", value |-> value]

InitProduction ==
    /\ village = NoVillage
    /\ server_speed = 1
    /\ current_time = StartTime
    /\ constructions_in_progress = <<>>
    /\ last_call = Call("init", NoArg, "none", NoneResult)
    /\ retained = NoneResult
    /\ retained_seen = NoneResult
    /\ reads = 0
    /\ scraper = NoScraper

\* field.base_production_per_hour, read on a field of any type and level
BaseProduction ==
    \E field_type \in ResourceTypes, level \in 0..MaxProductionLevel, position \in {1, 18} :
        LET field == ResourceField(field_type, level, position)
        IN  /\ last_call' = Call("base_production_per_hour", field, "none",
                                 IntResult(base_production_per_hour(field)))
            /\ UNCHANGED <<scraper, village, server_speed, current_time,
                           constructions_in_progress, retained, retained_seen, reads>>

NextProduction == BaseProduction

SpecProduction == InitProduction /\ [][NextProduction]_vars

\* C23: base_production_per_hour is 0 at level 0 and, from level 1 on, positive and
\* below the production of the same field one level higher, for every field type
C23_ProductionIncreasing ==
    last_call.op = "base_production_per_hour"
    => LET field == last_call.arg
           value == last_call.result.value
       IN  /\ field.level = 0 => value = 0
           /\ field.level >= 1
              => /\ value > 0
                 /\ value < base_production_per_hour(
                                [field EXCEPT !.level = field.level + 1])

\* an iron field at level 3 yields int(30 * 3 * 2.25) = 202
C23_Witness ==
    /\ last_call.op = "base_production_per_hour"
    /\ last_call.arg.field_type = "iron"
    /\ last_call.arg.level = 3
    /\ last_call.result.value = 202

----------------------------------------------------------------------------
(* data_pipeline/data_models.py *)

None == [kind |-> "None"]

\* an Optional[int] or Optional[float] field that is set
Some(value) == [kind |-> "number", value |-> value]

\* ResourceCosts: wood, clay, iron, crop, each ge=0
ResourceCostsValid(cost) == \A r \in ResourceTypes : cost[r] >= 0

\* the named effects that are Optional numbers
ScalarEffects ==
    {"storage_capacity", "population_bonus", "training_time_reduction",
     "build_time_reduction", "build_cost_reduction", "offensive_bonus",
     "defensive_bonus", "merchant_capacity", "culture_points_bonus"}

EffectNames == {"production_bonus"} \cup ScalarEffects \cup {"other_effects"}

\* BuildingEffects(): every named effect None, other_effects an empty dict
DefaultBuildingEffects ==
    [name \in EffectNames |->
        IF name = "other_effects" THEN DictResult(EmptyMap) ELSE None]

\* the truth value Python gives an Optional dict: None and {} are false
Truthy(d) == d.kind = "dict" /\ DOMAIN d.items # {}

\* has_effects testing the numbers for truth as it does the dicts: 0 counts as unset
has_effects_by_truth(effects) ==
    \/ Truthy(effects["production_bonus"])
    \/ \E name \in ScalarEffects :
          effects[name] # None /\ effects[name].value # 0
    \/ Truthy(effects["other_effects"])

has_effects(effects) ==
    \/ Truthy(effects["production_bonus"])
    \/ \E name \in ScalarEffects : effects[name] # None
    \/ Truthy(effects["other_effects"])

\* get_effect_summary: the dict of the effects its tests let in
get_effect_summary(effects) ==
    LET keys == {name \in EffectNames :
                    IF name \in ScalarEffects THEN effects[name] # None
                    ELSE Truthy(effects[name])}
    IN  [name \in keys |-> effects[name]]

\* BuildingLevel: level ge=1 le=100, build_time, population, culture_points ge=0
BuildingLevelValid(level, resource_cost, build_time, population, culture_points) ==
    /\ 1 <= level /\ level <= 100
    /\ ResourceCostsValid(resource_cost)
    /\ build_time >= 0
    /\ population >= 0
    /\ culture_points >= 0

BuildingLevel(level, resource_cost, build_time, population, culture_points, effects) ==
    [level |-> level, resource_cost |-> resource_cost, build_time |-> build_time,
     population |-> population, culture_points |-> culture_points, effects |-> effects]

\* BuildingData given by keyword: max_level ge=1 le=25, levels a list of BuildingLevel;
\* the list is taken as it comes
BuildingDataValid(max_level, levels) == 1 <= max_level /\ max_level <= 25

BuildingData(building_name, building_id, category, max_level, levels) ==
    [building_name |-> building_name, building_id |-> building_id,
     category |-> category, max_level |-> max_level, levels |-> levels]

----------------------------------------------------------------------------
(* game_engine.py: the catalog of building levels *)

\* a row of the buildings file, as constructing_level_from_row reads it
Row(building_id, level) ==
    [building_id |-> building_id, level |-> level,
     wood |-> 0, clay |-> 0, iron |-> 0, crop |-> 0,
     build_time |-> 0, population |-> 0, culture_points |-> 0]

\* constructing_level_from_row raises when BuildingLevel or ResourceCosts refuses the row
RowValid(row) ==
    BuildingLevelValid(row.level,
                       [wood |-> row.wood, clay |-> row.clay,
                        iron |-> row.iron, crop |-> row.crop],
                       row.build_time, row.population, row.culture_points)

\* construct_buildings_from_data on the rows of the file: with no rows the loop over
\* df['building_id'].unique() does not run and {} is returned; otherwise its first
\* round builds the levels of the first building id and then calls
\* BuildingData(building_levels), a positional argument a pydantic model refuses
construct_buildings_from_data(rows) ==
    IF rows = <<>> THEN [error |-> "none", catalog |-> DictResult(EmptyMap)]
    ELSE LET building_id == rows[1].building_id
             df_building == SelectSeq(rows, LAMBDA row : row.building_id = building_id)
         IN  IF \E i \in 1..Len(df_building) : ~RowValid(df_building[i])
             THEN [error |-> "ValidationError", catalog |-> None]
             ELSE [error |-> "TypeError", catalog |-> None]

----------------------------------------------------------------------------
(* The data models and the catalog, built from caller inputs *)

ZeroCost == [r \in ResourceTypes |-> 0]

\* BuildingEffects(...) with at most one of the number effects given, then read
EffectsInputs ==
    {[[DefaultBuildingEffects EXCEPT !["production_bonus"] = pb,
                                     !["other_effects"] = oe]
        EXCEPT ![name] = value] :
        pb \in {None, DictResult(EmptyMap), DictResult([r \in {"crop"} |-> 5])},
        oe \in {DictResult(EmptyMap), DictResult([k \in {"note"} |-> 1])},
        name \in ScalarEffects,
        value \in {None, Some(0), Some(5)}}

\* BuildingLevel records of the given levels, in the given order
LevelsOf(levels) ==
    [i \in 1..Len(levels) |-> BuildingLevel(levels[i], ZeroCost, 0, 0, 0, None)]

LevelLists == {<<>>, <<1>>, <<1, 2>>, <<1, 2, 3>>, <<1, 3>>, <<1, 1, 2>>, <<2, 1>>}

Catalogs ==
    {<<>>,
     <<Row("g15", 1), Row("g15", 2)>>,
     <<Row("g15", 1), Row("g15", 3)>>,
     <<Row("g15", 1), Row("g15", 1)>>,
     <<Row("g15", 0)>>,
     <<Row("g10", 1), Row("g15", 1), Row("g10", 2)>>}

InitCatalog ==
    /\ village = NoVillage
    /\ server_speed = 1
    /\ current_time = StartTime
    /\ constructions_in_progress = <<>>
    /\ last_call = Call("init", NoArg, "none", NoneResult)
    /\ retained = NoneResult
    /\ retained_seen = NoneResult
    /\ reads = 0
    /\ scraper = NoScraper

ConstructBuildingLevel ==
    \E level \in {0, 1, 25, 26, 100, 101}, build_time \in {-1, 0, 300} :
        /\ last_call' =
              IF BuildingLevelValid(level, ZeroCost, build_time, 0, 0)
              THEN Call("BuildingLevel", [level |-> level, build_time |-> build_time],
                        "none", BuildingLevel(level, ZeroCost, build_time, 0, 0, None))
              ELSE Call("BuildingLevel", [level |-> level, build_time |-> build_time],
                        "ValidationError", NoneResult)
        /\ UNCHANGED <<scraper, village, server_speed, current_time, constructions_in_progress,
                       retained, retained_seen, reads>>

\* effects = BuildingEffects(...); effects.has_effects; effects.get_effect_summary()
ConstructBuildingEffects ==
    \E effects \in EffectsInputs :
        /\ last_call' = Call("BuildingEffects", effects, "none",
                             [kind |-> "effects", has_effects |-> has_effects(effects),
                              summary |-> get_effect_summary(effects)])
        /\ UNCHANGED <<scraper, village, server_speed, current_time, constructions_in_progress,
                       retained, retained_seen, reads>>

ConstructBuildingData ==
    \E max_level \in {0, 1, 2, 3, 26}, levels \in LevelLists :
        /\ last_call' =
              IF BuildingDataValid(max_level, LevelsOf(levels))
              THEN Call("BuildingData", [max_level |-> max_level, levels |-> levels],
                        "none",
                        BuildingData("Main Building", "g15", "Infrastructure",
                                     max_level, LevelsOf(levels)))
              ELSE Call("BuildingData", [max_level |-> max_level, levels |-> levels],
                        "ValidationError", NoneResult)
        /\ UNCHANGED <<scraper, village, server_speed, current_time, constructions_in_progress,
                       retained, retained_seen, reads>>

LoadCatalog ==
    \E rows \in Catalogs :
        LET r == construct_buildings_from_data(rows)
        IN  /\ last_call' = Call("construct_buildings_from_data", rows, r.error, r.catalog)
            /\ UNCHANGED <<scraper, village, server_speed, current_time,
                           constructions_in_progress, retained, retained_seen, reads>>

NextCatalog ==
    \/ ConstructBuildingLevel
    \/ ConstructBuildingEffects
    \/ ConstructBuildingData
    \/ LoadCatalog

SpecCatalog == InitCatalog /\ [][NextCatalog]_vars

----------------------------------------------------------------------------
(* Claims about the data models and the catalog *)

\* the levels of a list are 1, 2, ... up to max_level, in this order
Contiguous(levels, max_level) ==
    /\ Len(levels) = max_level
    /\ \A i \in 1..Len(levels) : levels[i].level = i

\* the rows of one building id, in file order
RowsOf(rows, building_id) == SelectSeq(rows, LAMBDA row : row.building_id = building_id)

\* the rows of some building id skip or repeat a level
SkipsOrRepeats(rows) ==
    \E k \in 1..Len(rows) :
        LET mine == RowsOf(rows, rows[k].building_id)
        IN  {mine[i].level : i \in 1..Len(mine)} # 1..Len(mine)

\* C24: every per-level list that is served, by the catalog load or as a BuildingData,
\* is strictly increasing and contiguous from 1 to max_level, and a catalog whose rows
\* skip or repeat a level is rejected at load time
C24_CatalogContiguous ==
    /\ (last_call.op = "BuildingData" /\ last_call.error = "none")
       => Contiguous(last_call.result.levels, last_call.result.max_level)
    /\ last_call.op = "construct_buildings_from_data"
       => /\ SkipsOrRepeats(last_call.arg) => last_call.error # "none"
          /\ last_call.error = "none"
             => \A id \in DOMAIN last_call.result.items :
                   Contiguous(last_call.result.items[id].levels,
                              last_call.result.items[id].max_level)

\* C25: BuildingLevel accepts levels 1 and 25 and rejects levels 0 and 26 with a
\* validation error
C25_BuildingLevelRange ==
    (last_call.op = "BuildingLevel" /\ last_call.arg.build_time >= 0)
    => /\ last_call.arg.level \in {1, 25} => last_call.error = "none"
       /\ last_call.arg.level \in {0, 26} => last_call.error = "ValidationError"

\* the parts of C26 that do not depend on what counts as set: get_effect_summary() is
\* empty exactly when has_effects is false, and has_effects is false for BuildingEffects()
SummaryAgrees(call) ==
    /\ (DOMAIN call.result.summary = {}) <=> ~call.result.has_effects
    /\ call.arg = DefaultBuildingEffects => ~call.result.has_effects

\* C26 as stated: has_effects is true if and only if a named effect field is not None or
\* other_effects is non-empty; the summary is empty exactly when has_effects is false
C26_HasEffectsIffSet ==
    last_call.op = "BuildingEffects"
    => /\ last_call.result.has_effects
          <=> \/ \E name \in EffectNames \ {"other_effects"} : last_call.arg[name] # None
              \/ DOMAIN last_call.arg["other_effects"].items # {}
       /\ SummaryAgrees(last_call)

\* C26 amended: has_effects is true if and only if production_bonus is a non-empty dict,
\* or another named effect field is not None, or other_effects is non-empty; the summary
\* is empty exactly when has_effects is false
C26_HasEffectsIffSetOrNonEmpty ==
    last_call.op = "BuildingEffects"
    => /\ last_call.result.has_effects
          <=> \/ /\ last_call.arg["production_bonus"] # None
                 /\ DOMAIN last_call.arg["production_bonus"].items # {}
              \/ \E name \in ScalarEffects : last_call.arg[name] # None
              \/ DOMAIN last_call.arg["other_effects"].items # {}
       /\ SummaryAgrees(last_call)

\* effects whose only entry is storage_capacity = 0 have effects, and a summary of it
C26_Witness ==
    /\ last_call.op = "BuildingEffects"
    /\ last_call.arg["storage_capacity"] = Some(0)
    /\ last_call.arg["production_bonus"] = DictResult(EmptyMap)
    /\ last_call.result.has_effects
    /\ DOMAIN last_call.result.summary = {"storage_capacity"}

----------------------------------------------------------------------------
(* data_pipeline/building_scraper.py: ResourcesScraper._process_all_buildings *)

\* the most building containers the page shows
MaxBuildings == 4

Min(a, b) == IF a < b THEN a ELSE b

\* current_index += 1.  The index is only ever compared with the length of the list of
\* containers, at most MaxBuildings: MaxBuildings stands for every index from there on
NextIndex(current_index) == Min(current_index + 1, MaxBuildings)

\* total_buildings = len(initial_buildings); processed_count = 0; current_index = 0
InitScraper ==
    /\ village = NoVillage
    /\ server_speed = 1
    /\ current_time = StartTime
    /\ constructions_in_progress = <<>>
    /\ last_call = Call("init", NoArg, "none", NoneResult)
    /\ retained = NoneResult
    /\ retained_seen = NoneResult
    /\ reads = 0
    /\ \E total_buildings \in 0..MaxBuildings :
          scraper = [pc |-> "while", total_buildings |-> total_buildings,
                     processed_count |-> 0, current_index |-> 0,
                     all_buildings_data |-> <<>>]

\* while processed_count < total_buildings: ...; return all_buildings_data
WhileTest ==
    /\ scraper.pc = "while"
    /\ scraper' = [scraper EXCEPT !.pc = IF scraper.processed_count < scraper.total_buildings
                                         THEN "body" ELSE "done"]
    /\ UNCHANGED <<village, server_speed, current_time, constructions_in_progress,
                   last_call, retained, retained_seen, reads>>

\* _process_single_building returns: False when the index is past the end of the list
\* just fetched or when no data could be extracted or structured, True after appending
ProcessSingleBuilding ==
    /\ scraper.pc = "body"
    /\ \E current_buildings \in 0..MaxBuildings, extracted \in BOOLEAN :
          LET success == scraper.current_index < current_buildings /\ extracted
          IN  scraper' = [scraper EXCEPT
                             !.all_buildings_data =
                                 IF success THEN Append(@, scraper.current_index) ELSE @,
                             !.processed_count = IF success THEN @ + 1 ELSE @,
                             !.current_index = NextIndex(@),
                             !.pc = "while"]
    /\ UNCHANGED <<village, server_speed, current_time, constructions_in_progress,
                   last_call, retained, retained_seen, reads>>

\* _process_single_building raises: skip the building if the main page is reached
\* again, else break
ProcessRaises ==
    /\ scraper.pc = "body"
    /\ \E recovered \in BOOLEAN :
          scraper' = IF recovered
                     THEN [scraper EXCEPT !.current_index = NextIndex(@), !.pc = "while"]
                     ELSE [scraper EXCEPT !.pc = "done"]
    /\ UNCHANGED <<village, server_speed, current_time, constructions_in_progress,
                   last_call, retained, retained_seen, reads>>

NextScraper ==
    \/ WhileTest
    \/ ProcessSingleBuilding
    \/ ProcessRaises

\* the scraper is one thread that keeps running until it returns
SpecScraper == InitScraper /\ [][NextScraper]_vars /\ WF_vars(NextScraper)

\* C30: the loop of _process_all_buildings always terminates: it eventually exits and
\* returns the collected list
C30_LoopTerminates == <>(scraper.pc = "done")

----------------------------------------------------------------------------
(* Claims about levels, accrual and the lifetime of buildings *)

\* C27: every resource field's level lies in [0,10], or [0,20] in a capital, and the
\* village has exactly 18 fields, at the positions 1..18
C27_FieldLevelsWithinCap ==
    /\ Len(village.resource_fields) = 18
    /\ {village.resource_fields[i].position : i \in 1..18} = 1..18
    /\ \A i \in 1..Len(village.resource_fields) :
          /\ village.resource_fields[i].level >= 0
          /\ village.resource_fields[i].level <= IF village.capital THEN 20 ELSE 10

\* Village.resource_production_per_hour: the base productions of the fields, by type
resource_production_per_hour(v) ==
    LET RECURSIVE Total(_, _)
        Total(field_type, i) ==
            IF i > Len(v.resource_fields) THEN 0
            ELSE Total(field_type, i + 1)
                 + IF v.resource_fields[i].field_type = field_type
                   THEN base_production_per_hour(v.resource_fields[i])
                   ELSE 0
    IN  [r \in ResourceTypes |-> Total(r, 1)]

----------------------------------------------------------------------------
(* A producing village and its clock *)

\* the upgrade of wood field 1 from level 1, due one instant after the start
FieldUpgrade ==
    BuildingConstruction(1, 2, StartTime + 1, [r \in ResourceTypes |-> 0])

InitClock ==
    /\ village \in {r.village :
                      r \in {create_developed_village(FormatType(<<4, 4, 4, 6>>), fl, <<>>) :
                                fl \in {[x \in {1} |-> 1], [x \in {1, 18} |-> 1],
                                        [x \in {1, 18} |-> 9]}}}
    /\ server_speed = 1
    /\ current_time = StartTime
    /\ constructions_in_progress \in {<<>>, <<FieldUpgrade>>, <<FieldUpgrade, MainUpgrade>>}
    /\ last_call = Call("init", NoArg, "none", NoneResult)
    /\ retained = NoneResult
    /\ retained_seen = NoneResult
    /\ reads = 0
    /\ scraper = NoScraper

NextClock ==
    \/ AdvanceTimeTo
    \/ AdvanceToNextEvent

SpecClock == InitClock /\ [][NextClock]_vars

Clamp(amount, cap) == IF amount > cap THEN cap ELSE amount

\* the village with the field at a position at a level
WithFieldLevel(v, position, level) ==
    [v EXCEPT !.resource_fields =
        [i \in 1..Len(@) |-> IF @[i].position = position
                             THEN [@[i] EXCEPT !.level = level] ELSE @[i]]]

\* the pending constructions a move of the clock from t0 to t2 crosses
Crossed(pending, t0, t2) ==
    {i \in 1..Len(pending) :
        t0 < pending[i].completion_time /\ pending[i].completion_time <= t2}

\* C28: when a time advance from t0 crosses the completion of a field construction at
\* t1, current_resources grow over [t0,t1] at the production rate of t0 and are clamped
\* at resource_caps, and grow at the raised rate only after t1 (one instant = one hour)
C28_AccrualAtRateBeforeCompletion ==
    [][(/\ last_call'.op = "advance_time_to"
        /\ last_call'.error = "none"
        /\ Cardinality(Crossed(constructions_in_progress, current_time, current_time')) = 1)
       => LET i == CHOOSE j \in Crossed(constructions_in_progress,
                                        current_time, current_time') : TRUE
              c == constructions_in_progress[i]
              t1 == c.completion_time
              raised == IF c.building_position \in 1..18
                        THEN WithFieldLevel(village, c.building_position, c.target_level)
                        ELSE village
          IN  \A r \in ResourceTypes :
                 LET at_t1 == Clamp(village.current_resources[r]
                                    + resource_production_per_hour(village)[r]
                                        * (t1 - current_time),
                                    village.resource_caps[r])
                 IN  village'.current_resources[r] =
                        Clamp(at_t1 + resource_production_per_hour(raised)[r]
                                        * (current_time' - t1),
                              village'.resource_caps[r])]_vars

\* the four operations that act on a village and its clock, on a fresh 4-4-4-6 village
InitLifetime ==
    /\ Init
    /\ server_speed = 1
    /\ village.village_type = <<4, 4, 4, 6>>

NextLifetime ==
    \/ Commit
    \/ AdvanceToNextEvent
    \/ AdvanceTimeTo
    \/ AddBuilding

SpecLifetime == InitLifetime /\ [][NextLifetime]_vars

\* C29: over commit, advance_to_next_event, advance_time_to and add_building no building
\* is ever removed from the village and no field or building level ever decreases
C29_NothingRemovedOrLowered ==
    [][/\ \A i \in 1..Len(village.buildings) :
             \E j \in 1..Len(village'.buildings) :
                /\ village'.buildings[j].position = village.buildings[i].position
                /\ village'.buildings[j].building_id = village.buildings[i].building_id
                /\ village'.buildings[j].level >= village.buildings[i].level
       /\ \A position \in 1..18 :
             LevelAt(village', position) >= LevelAt(village, position)]_vars

\* a village whose building list has grown to three, with the clock then moved on past
\* the completion time of a pending construction
C29_Witness ==
    /\ Len(village.buildings) = 3
    /\ last_call.op = "advance_time_to"
    /\ last_call.error = "none"
    /\ constructions_in_progress # <<>>
    /\ current_time > constructions_in_progress[1].completion_time

====
